---- MODULE Spec2Model ----
(***************************************************************************)
(* The pNFT RPC service of src/src/main.rs: eight axum handlers that share *)
(* one Arc<Mutex<NFTState>> and call into the penumbra_nft core.           *)
(*                                                                         *)
(* The handlers are modelled from main.rs.  The core functions they call   *)
(* (mint_nft, transfer_nft, reveal_nft, stake_nft, unstake_nft,            *)
(* airdrop_nft, export_nft_for_ibc, import_nft_from_ibc) live in the       *)
(* penumbra_nft crate, which is not part of the source tree; they are      *)
(* modelled from spec.md sections 4.3 - 4.8.                               *)
(***************************************************************************)
EXTENDS Integers, Sequences, FiniteSets, TLC

\* ------------------------------------------------------------------ bounds
MaxIds == 2          \* identifiers the id generator / packets can name
NumTasks == 2        \* request tasks the runtime runs concurrently
MaxRecipients == 2   \* longest recipient list of an airdrop request
MaxRequests == 3     \* requests served in one run

\* ---------------------------------------------------------- program values
DefaultMaturity == 5     \* Some(5) of mint_handler
PacketVersion == 1       \* version tag of the IBC packet (spec 4.8)

Ids == 1..MaxIds
Tasks == 1..NumTasks
Owners == {"alice", "bob"}
Malformed == ""                       \* a malformed principal address
Principals == Owners \cup {Malformed}
Redacted == "REDACTED"
NoId == 0

\* body of a MintRequest: name, description, image_cid, attributes
MintBodies ==
  { [name |-> "Art#1", description |-> "d1", image_cid |-> "cid", attributes |-> "a1"],
    [name |-> "Art#1", description |-> "d2", image_cid |-> "cid", attributes |-> "a2"] }

VARIABLES
  nfts,      \* NFTState.nfts: the registry, a function from a set of ids to NFT
  mutex,     \* the std::sync::Mutex: 0 when free, else the task holding it
  poisoned,  \* the Mutex's poison flag
  pc,        \* per task: "idle", "waiting" (blocked in lock()), "locked"
  snap,      \* the registry as the lock holder found it at acquisition
  minted,    \* history: description/attributes each id was minted with
  served,    \* number of requests served so far
  last       \* the response of the request served last

vars == <<nfts, mutex, poisoned, pc, snap, minted, served, last>>

\* ------------------------------------------------------------- Result<T,E>
Ok(s, v) == [ok |-> TRUE, state |-> s, val |-> v]
Err(s, e) == [ok |-> FALSE, state |-> s, val |-> e]

\* --------------------------------------------------------------- NFTState
\* state.get_nft(&id)
HasNft(s, id) == id \in DOMAIN s

\* HashMap::insert: stores the value, replacing what the key held before
HashMapInsert(s, id, nft) == [k \in (DOMAIN s) \cup {id} |-> IF k = id THEN nft ELSE s[k]]

\* fresh identifier of the id generator (Uuid): never one the registry holds
FreshIds(s) == Ids \ DOMAIN s
FreshId(s) == CHOOSE i \in FreshIds(s) : \A j \in FreshIds(s) : i <= j

\* ------------------------------------------------------------- core: mint
\* mint_nft(&mut state, owner, metadata, Some(5)) -> id
mint_nft(s, owner, metadata, maturity) ==
  LET id == FreshId(s)
      nft == [id |-> id, owner |-> owner, metadata |-> metadata,
              lock_state |-> "Unlocked", maturity |-> maturity]
  IN  [state |-> HashMapInsert(s, id, nft), id |-> id]

\* --------------------------------------------------------- core: transfer
transfer_nft(s, id, to) ==
  IF ~HasNft(s, id) THEN Err(s, "NotFound")
  ELSE IF s[id].lock_state = "Staked" THEN Err(s, "AssetLocked")
  ELSE Ok([s EXCEPT ![id].owner = to], "")

\* ---------------------------------------------------------- core: staking
stake_nft(s, id) ==
  IF ~HasNft(s, id) THEN Err(s, "NotFound")
  ELSE IF s[id].lock_state = "Staked" THEN Err(s, "AlreadyStaked")
  ELSE Ok([s EXCEPT ![id].lock_state = "Staked"], "")

unstake_nft(s, id) ==
  IF ~HasNft(s, id) THEN Err(s, "NotFound")
  ELSE IF s[id].lock_state = "Unlocked" THEN Err(s, "NotStaked")
  ELSE Ok([s EXCEPT ![id].lock_state = "Unlocked"], "")

\* ------------------------------------------------------- core: disclosure
\* a viewing credential: None, or Some(principal); valid when it names the owner
NoCredential == "None"
ValidCredential(nft, cred) == cred # NoCredential /\ cred = nft.owner

FullView(nft) ==
  [found |-> TRUE, id |-> nft.id, owner |-> nft.owner, shielded |-> nft.metadata.shielded,
   name |-> nft.metadata.name, description |-> nft.metadata.description,
   image_cid |-> nft.metadata.image_cid, attributes |-> nft.metadata.attributes]

\* the redacted projection: identifier, owner and shielding flag only
RedactedView(nft) ==
  [found |-> TRUE, id |-> nft.id, owner |-> nft.owner, shielded |-> nft.metadata.shielded,
   name |-> Redacted, description |-> Redacted,
   image_cid |-> Redacted, attributes |-> Redacted]

NoView ==
  [found |-> FALSE, id |-> NoId, owner |-> Redacted, shielded |-> FALSE,
   name |-> Redacted, description |-> Redacted,
   image_cid |-> Redacted, attributes |-> Redacted]

\* reveal_nft(&state, &id, credential) -> Option<NFT>
reveal_nft(s, id, cred) ==
  IF ~HasNft(s, id) THEN NoView
  ELSE IF ~s[id].metadata.shielded THEN FullView(s[id])
  ELSE IF ValidCredential(s[id], cred) THEN FullView(s[id])
  ELSE RedactedView(s[id])

\* ---------------------------------------------------------- core: airdrop
WellFormed(principal) == principal # Malformed

RECURSIVE AirdropFold(_, _, _, _)
\* one clone of the source per well-formed recipient, in list order; a
\* malformed recipient is reported and skipped
AirdropFold(s, src, recipients, outcomes) ==
  IF recipients = <<>> THEN [state |-> s, outcomes |-> outcomes]
  ELSE LET r == Head(recipients)
       IN  IF WellFormed(r)
           THEN LET m == mint_nft(s, r, src.metadata, src.maturity)
                IN  AirdropFold(m.state, src, Tail(recipients), Append(outcomes, m.id))
           ELSE AirdropFold(s, src, Tail(recipients), Append(outcomes, NoId))

\* airdrop_nft(&mut state, &id, recipients); val is the per-recipient outcome
\* list: the new identifier, or NoId for a recipient that was rejected
airdrop_nft(s, id, recipients) ==
  IF ~HasNft(s, id) THEN Err(s, "NotFound")
  ELSE LET f == AirdropFold(s, s[id], recipients, <<>>)
       IN  Ok(f.state, f.outcomes)

\* -------------------------------------------------------- core: packaging
\* export_nft_for_ibc(&nft): the versioned encoding of the full record
export_nft_for_ibc(nft) ==
  <<PacketVersion, nft.id, nft.owner, nft.metadata.name, nft.metadata.description,
    nft.metadata.image_cid, nft.metadata.attributes, nft.metadata.shielded,
    nft.lock_state, nft.maturity>>

PacketLen == 10

Decodes(bytes) == Len(bytes) = PacketLen /\ bytes[1] = PacketVersion

\* import_nft_from_ibc(&serialized): the record a packet decodes to
import_nft_from_ibc(bytes) ==
  [id |-> bytes[2], owner |-> bytes[3],
   metadata |-> [name |-> bytes[4], description |-> bytes[5], image_cid |-> bytes[6],
                 attributes |-> bytes[7], shielded |-> bytes[8]],
   lock_state |-> bytes[9], maturity |-> bytes[10]]

\* ------------------------------------------------------------ request inputs
\* entries of the recipient list of an AirdropRequest
Recipients == {"bob", Malformed}

\* recipient lists of an AirdropRequest
RecipientLists == UNION { [1..n -> Recipients] : n \in 0..MaxRecipients }

WellFormedCount(recipients) ==
  Cardinality({ i \in DOMAIN recipients : WellFormed(recipients[i]) })

\* records a foreign domain may have packaged under an identifier
ForeignRecords ==
  { [id |-> i, owner |-> f[1],
     metadata |-> [name |-> "Art#1", description |-> f[2], image_cid |-> "cid",
                   attributes |-> f[3], shielded |-> TRUE],
     lock_state |-> f[4], maturity |-> DefaultMaturity] :
    i \in Ids, f \in { <<"alice", "d1", "a1", "Unlocked">>, <<"bob", "d2", "a2", "Staked">> } }

\* bytes that do not decode: truncated, or of an unsupported version
BadPackets == { <<>>, <<PacketVersion + 1>> }

\* the `serialized` field of an IBCImportRequest: a packet exported from the
\* registry s, a packet of a foreign domain, or bytes that do not decode
ImportInputs(s) ==
  { export_nft_for_ibc(s[i]) : i \in DOMAIN s }
    \cup { export_nft_for_ibc(r) : r \in ForeignRecords } \cup BadPackets

\* ---------------------------------------------------------------- responses
NoPacket == <<>>

Response(op, id, to, status, view, packet, recipients) ==
  [op |-> op, id |-> id, to |-> to, status |-> status,
   view |-> view, packet |-> packet, recipients |-> recipients]

NoResponse == Response("none", NoId, "", "", NoView, NoPacket, <<>>)

\* ------------------------------------------------------------------- mutex
LockAlwaysAvailable(m) == TRUE

\* Mutex::lock blocks until no other task holds the mutex
LockAvailable(m) == m = 0

\* the guard dropped at the end of the handler
Release(t) ==
  /\ mutex' = 0
  /\ pc' = [pc EXCEPT ![t] = "idle"]
  /\ snap' = <<>>

Init ==
  /\ nfts = <<>>
  /\ mutex = 0
  /\ poisoned = FALSE
  /\ pc = [t \in Tasks |-> "idle"]
  /\ snap = <<>>
  /\ minted = <<>>
  /\ served = 0
  /\ last = NoResponse

\* a request is routed to its handler, which calls state.lock()
Request(t) ==
  /\ pc[t] = "idle"
  /\ served < MaxRequests
  /\ pc' = [pc EXCEPT ![t] = "waiting"]
  /\ served' = served + 1
  /\ UNCHANGED <<nfts, mutex, poisoned, snap, minted, last>>

\* state.lock().unwrap() returns the guard
Lock(t) ==
  /\ pc[t] = "waiting"
  /\ LockAvailable(mutex)
  /\ ~poisoned
  /\ mutex' = t
  /\ pc' = [pc EXCEPT ![t] = "locked"]
  /\ snap' = nfts
  /\ UNCHANGED <<nfts, poisoned, minted, served, last>>

\* state.lock().unwrap() on a poisoned mutex: the unwrap panics, the task ends
LockPoisoned(t) ==
  /\ pc[t] = "waiting"
  /\ LockAvailable(mutex)
  /\ poisoned
  /\ pc' = [pc EXCEPT ![t] = "idle"]
  /\ last' = Response("lock", NoId, "", "panic", NoView, NoPacket, <<>>)
  /\ UNCHANGED <<nfts, mutex, poisoned, snap, minted, served>>

\* ---------------------------------------------------------------- handlers
\* what a handler does between taking the guard and returning: the new
\* registry and the response body

\* the NFTMetadata mint_handler builds from the request: shielded is always true
MintMetadata(b) ==
  [name |-> b.name, description |-> b.description, image_cid |-> b.image_cid,
   attributes |-> b.attributes, shielded |-> TRUE]

\* result.map(|_| "ok".into()).unwrap_or_else(|e| e)
GenericStatus(result, okText) == IF result.ok THEN okText ELSE result.val

mint_effect_stakes_at_mint(s, owner, b) ==
  LET r == mint_nft(s, owner, MintMetadata(b), DefaultMaturity)
  IN  [state |-> [r.state EXCEPT ![r.id].lock_state = "Staked"], id |-> r.id]

mint_effect(s, owner, b) ==
  LET r == mint_nft(s, owner, MintMetadata(b), DefaultMaturity)
  IN  [state |-> r.state, id |-> r.id]

transfer_effect_ignores_error(s, id, to) ==
  LET result == transfer_nft(s, id, to)
  IN  [state |-> result.state, status |-> "ok"]

transfer_effect_writes_before_check(s, id, to) ==
  LET result == transfer_nft(s, id, to)
  IN  [state |-> IF HasNft(s, id) THEN [s EXCEPT ![id].owner = to] ELSE s,
       status |-> GenericStatus(result, "ok")]

transfer_effect_rejects_same_owner(s, id, to) ==
  LET result == transfer_nft(s, id, to)
  IN  IF HasNft(s, id) /\ s[id].owner = to
      THEN [state |-> s, status |-> "AlreadyOwner"]
      ELSE [state |-> result.state, status |-> GenericStatus(result, "ok")]

transfer_effect(s, id, to) ==
  LET result == transfer_nft(s, id, to)
  IN  [state |-> result.state, status |-> GenericStatus(result, "ok")]

view_effect_passes_owner_credential(s, id) ==
  IF HasNft(s, id) THEN reveal_nft(s, id, s[id].owner) ELSE NoView

view_effect(s, id) == reveal_nft(s, id, NoCredential)

stake_effect(s, id) ==
  LET result == stake_nft(s, id)
  IN  [state |-> result.state, status |-> GenericStatus(result, "staked")]

unstake_effect_calls_stake(s, id) == stake_effect(s, id)

unstake_effect(s, id) ==
  LET result == unstake_nft(s, id)
  IN  [state |-> result.state, status |-> GenericStatus(result, "unstaked")]

RECURSIVE UpToMalformed(_)
UpToMalformed(recipients) ==
  IF recipients = <<>> \/ ~WellFormed(Head(recipients)) THEN <<>>
  ELSE <<Head(recipients)>> \o UpToMalformed(Tail(recipients))

airdrop_effect_stops_at_malformed(s, id, recipients) ==
  LET result == airdrop_nft(s, id, UpToMalformed(recipients))
  IN  [state |-> result.state, status |-> GenericStatus(result, "airdropped")]

airdrop_effect_ignores_error(s, id, recipients) ==
  LET result == airdrop_nft(s, id, recipients)
  IN  [state |-> result.state, status |-> "airdropped"]

airdrop_effect(s, id, recipients) ==
  LET result == airdrop_nft(s, id, recipients)
  IN  [state |-> result.state, status |-> GenericStatus(result, "airdropped")]

\* state.get_nft(&id).map(export_nft_for_ibc): the caller is not looked at
export_effect(s, id, caller) ==
  IF HasNft(s, id) THEN [status |-> "ok", packet |-> export_nft_for_ibc(s[id])]
  ELSE [status |-> "null", packet |-> NoPacket]

import_effect_no_insert(s, serialized) ==
  LET nft == import_nft_from_ibc(serialized)
  IN  [state |-> s, id |-> nft.id, status |-> "imported"]

\* nft.id.clone(); state.nfts.insert(id.clone(), nft); format!("imported {}", id)
import_effect(s, serialized) ==
  LET nft == import_nft_from_ibc(serialized)
      id == nft.id
  IN  [state |-> HashMapInsert(s, id, nft), id |-> id, status |-> "imported"]

\* history: the description and attributes a record was created with
Secret(metadata) ==
  [description |-> metadata.description, attributes |-> metadata.attributes]

Minted(before, after) ==
  [k \in DOMAIN minted \cup (DOMAIN after \ DOMAIN before) |->
     IF k \in DOMAIN minted THEN minted[k] ELSE Secret(after[k].metadata)]

\* POST /mint
mint_handler(t) ==
  /\ pc[t] = "locked"
  /\ FreshIds(nfts) # {}
  /\ \E owner \in Principals, b \in MintBodies :
       LET e == mint_effect(nfts, owner, b)
       IN  /\ nfts' = e.state
           /\ minted' = Minted(nfts, e.state)
           /\ last' = Response("mint", e.id, owner, "ok", NoView, NoPacket, <<>>)
  /\ Release(t)
  /\ UNCHANGED <<poisoned, served>>

\* POST /transfer
transfer_handler(t) ==
  /\ pc[t] = "locked"
  /\ \E id \in Ids, to \in Principals :
       LET e == transfer_effect(nfts, id, to)
       IN  /\ nfts' = e.state
           /\ last' = Response("transfer", id, to, e.status, NoView, NoPacket, <<>>)
  /\ Release(t)
  /\ UNCHANGED <<poisoned, minted, served>>

\* GET /view/:id
view_handler(t) ==
  /\ pc[t] = "locked"
  /\ \E id \in Ids :
       last' = Response("view", id, "", "ok", view_effect(nfts, id), NoPacket, <<>>)
  /\ Release(t)
  /\ UNCHANGED <<nfts, poisoned, minted, served>>

\* POST /stake/:id
stake_handler(t) ==
  /\ pc[t] = "locked"
  /\ \E id \in Ids :
       LET e == stake_effect(nfts, id)
       IN  /\ nfts' = e.state
           /\ last' = Response("stake", id, "", e.status, NoView, NoPacket, <<>>)
  /\ Release(t)
  /\ UNCHANGED <<poisoned, minted, served>>

\* POST /unstake/:id
unstake_handler(t) ==
  /\ pc[t] = "locked"
  /\ \E id \in Ids :
       LET e == unstake_effect(nfts, id)
       IN  /\ nfts' = e.state
           /\ last' = Response("unstake", id, "", e.status, NoView, NoPacket, <<>>)
  /\ Release(t)
  /\ UNCHANGED <<poisoned, minted, served>>

\* POST /airdrop
airdrop_handler(t) ==
  /\ pc[t] = "locked"
  /\ \E id \in Ids, recipients \in RecipientLists :
       /\ WellFormedCount(recipients) <= Cardinality(FreshIds(nfts))
       /\ LET e == airdrop_effect(nfts, id, recipients)
          IN  /\ nfts' = e.state
              /\ minted' = Minted(nfts, e.state)
              /\ last' = Response("airdrop", id, "", e.status, NoView, NoPacket, recipients)
  /\ Release(t)
  /\ UNCHANGED <<poisoned, served>>

\* GET /ibc/export/:id, sent by any caller
ibc_export_handler(t) ==
  /\ pc[t] = "locked"
  /\ \E id \in Ids, caller \in Owners :
       LET e == export_effect(nfts, id, caller)
       IN  last' = Response("export", id, caller, e.status, NoView, e.packet, <<>>)
  /\ Release(t)
  /\ UNCHANGED <<nfts, poisoned, minted, served>>

\* POST /ibc/import, a packet that decodes
ibc_import_handler(t) ==
  /\ pc[t] = "locked"
  /\ \E serialized \in ImportInputs(nfts) :
       /\ Decodes(serialized)
       /\ LET e == import_effect(nfts, serialized)
          IN  /\ nfts' = e.state
              /\ last' = Response("import", e.id, "", e.status, NoView, serialized, <<>>)
  /\ Release(t)
  /\ UNCHANGED <<poisoned, minted, served>>

\* POST /ibc/import, bytes that do not decode: import_nft_from_ibc returns an
\* NFT, not a Result, so it has no value to return and the handler panics
\* while it holds the guard, which poisons the mutex
ibc_import_panic(t) ==
  /\ pc[t] = "locked"
  /\ \E serialized \in ImportInputs(nfts) :
       /\ ~Decodes(serialized)
       /\ last' = Response("import", NoId, "", "panic", NoView, NoPacket, <<>>)
  /\ poisoned' = TRUE
  /\ Release(t)
  /\ UNCHANGED <<nfts, minted, served>>

Next ==
  \E t \in Tasks :
    \/ Request(t)
    \/ Lock(t)
    \/ LockPoisoned(t)
    \/ mint_handler(t)
    \/ transfer_handler(t)
    \/ view_handler(t)
    \/ stake_handler(t)
    \/ unstake_handler(t)
    \/ airdrop_handler(t)
    \/ ibc_export_handler(t)
    \/ ibc_import_handler(t)
    \/ ibc_import_panic(t)

Spec == Init /\ [][Next]_vars

\* the body of the handler a task runs once it holds the guard
Handlers(t) ==
  \/ mint_handler(t) \/ transfer_handler(t) \/ view_handler(t)
  \/ stake_handler(t) \/ unstake_handler(t) \/ airdrop_handler(t)
  \/ ibc_export_handler(t) \/ ibc_import_handler(t) \/ ibc_import_panic(t)

\* the runtime keeps polling every task: a task that can take the mutex, or
\* that holds it, runs on; no handler awaits while it holds the guard
LiveSpec ==
  /\ Init /\ [][Next]_vars
  /\ \A t \in Tasks :
       /\ WF_vars(Lock(t))
       /\ WF_vars(LockPoisoned(t))
       /\ WF_vars(Handlers(t))

\* ------------------------------------------------------------------ claims
\* the step in which a handler of kind op returns its response
Fired(op) ==
  /\ \E t \in Tasks : pc[t] = "locked" /\ pc'[t] = "idle"
  /\ last'.op = op

\* C1: a transfer of a record of the registry answers AssetLocked exactly when
\* the record is Staked at the call; on an Unlocked record it answers ok and
\* the record's owner is the new owner afterwards.
C1_LockTransferExclusion ==
  [][ (Fired("transfer") /\ HasNft(nfts, last'.id)) =>
        /\ (last'.status = "AssetLocked") <=> (nfts[last'.id].lock_state = "Staked")
        /\ (nfts[last'.id].lock_state = "Unlocked") =>
             (last'.status = "ok" /\ nfts'[last'.id].owner = last'.to) ]_vars

\* a transfer was refused on a Staked record
C1_Witness ==
  /\ last.op = "transfer" /\ last.status = "AssetLocked"
  /\ HasNft(nfts, last.id) /\ nfts[last.id].lock_state = "Staked"

\* C2: an import whose packet names an identifier the registry already holds
\* answers DuplicateIdentifier and leaves the registry as it was.
C2_ImportRejectsDuplicate ==
  [][ (Fired("import") /\ HasNft(nfts, last'.id)) =>
        (last'.status = "DuplicateIdentifier" /\ nfts' = nfts) ]_vars

\* C3: for a shielded record, reveal without a credential returns the
\* redacted projection, which is the same whatever the description and
\* attributes are, and reveal with the owner's credential returns the
\* description and attributes the record was minted with.
C3_DisclosureGating ==
  \A id \in DOMAIN nfts :
    nfts[id].metadata.shielded =>
      /\ view_effect(nfts, id).description = Redacted
      /\ view_effect(nfts, id).attributes = Redacted
      /\ \A b \in MintBodies :
           view_effect([nfts EXCEPT ![id].metadata.description = b.description,
                                    ![id].metadata.attributes = b.attributes], id)
             = view_effect(nfts, id)
      /\ id \in DOMAIN minted =>
           /\ reveal_nft(nfts, id, nfts[id].owner).description = minted[id].description
           /\ reveal_nft(nfts, id, nfts[id].owner).attributes = minted[id].attributes

\* C4: an export that returns a record's packet was asked for by the
\* record's owner.
C4_ExportOwnerAuthorized ==
  (last.op = "export" /\ last.status = "ok") => last.to = nfts[last.id].owner

\* C5: at most one task is inside the registry's exclusive region, it is the
\* holder of the mutex, and the registry it works on is the registry as it was
\* when it acquired the mutex, so the handlers take effect one at a time in the
\* order of their acquisitions.
C5_OneMutationInFlight ==
  /\ Cardinality({ t \in Tasks : pc[t] = "locked" }) <= 1
  /\ \A t \in Tasks : pc[t] = "locked" => (mutex = t /\ snap = nfts)

\* a task holds the mutex over a non-empty registry while another waits for it
C5_Witness ==
  \E t, u \in Tasks : pc[t] = "locked" /\ pc[u] = "waiting" /\ nfts # <<>>

\* C6: every registry key is the id of the record under it, a mint returns
\* an identifier the registry did not hold, and an import under an identifier
\* the registry holds answers DuplicateIdentifier.
C6_Uniqueness ==
  [][ /\ \A k \in DOMAIN nfts' : nfts'[k].id = k
      /\ Fired("mint") => (~HasNft(nfts, last'.id) /\ HasNft(nfts', last'.id))
      /\ (Fired("import") /\ HasNft(nfts, last'.id)) =>
           last'.status = "DuplicateIdentifier" ]_vars

\* C7: a stake of an Unlocked record succeeds, and the unstake that follows
\* it succeeds and gives back the registry as it was before the stake; a
\* successful unstake changes nothing but the lock state, to Unlocked.
C7_StakeUnstakeRoundTrip ==
  [][ /\ (Fired("stake") /\ HasNft(nfts, last'.id)
            /\ nfts[last'.id].lock_state = "Unlocked") =>
           /\ last'.status = "staked"
           /\ unstake_effect(nfts', last'.id).status = "unstaked"
           /\ unstake_effect(nfts', last'.id).state = nfts
      /\ (Fired("unstake") /\ last'.status = "unstaked") =>
           nfts' = [nfts EXCEPT ![last'.id].lock_state = "Unlocked"] ]_vars

\* a minted record was unstaked and is Unlocked, with the contents it was minted with
C7_Witness ==
  /\ last.op = "unstake" /\ last.status = "unstaked"
  /\ HasNft(nfts, last.id) /\ nfts[last.id].lock_state = "Unlocked"
  /\ last.id \in DOMAIN minted /\ Secret(nfts[last.id].metadata) = minted[last.id]

\* C8: a lock state is Unlocked or Staked; it changes only from Unlocked to
\* Staked in a successful stake and from Staked to Unlocked in a successful
\* unstake; stake of a Staked record answers AlreadyStaked, unstake of an
\* Unlocked record NotStaked, and either of an absent identifier NotFound.
C8_LockStateMachine ==
  [][ /\ \A k \in DOMAIN nfts' : nfts'[k].lock_state \in {"Unlocked", "Staked"}
      /\ \A k \in DOMAIN nfts \cap DOMAIN nfts' :
           nfts'[k].lock_state # nfts[k].lock_state =>
             \/ /\ Fired("stake") /\ last'.id = k /\ last'.status = "staked"
                /\ nfts[k].lock_state = "Unlocked"
             \/ /\ Fired("unstake") /\ last'.id = k /\ last'.status = "unstaked"
                /\ nfts[k].lock_state = "Staked"
      /\ (Fired("stake") /\ HasNft(nfts, last'.id) /\ nfts[last'.id].lock_state = "Staked")
           => (last'.status = "AlreadyStaked" /\ nfts' = nfts)
      /\ (Fired("unstake") /\ HasNft(nfts, last'.id) /\ nfts[last'.id].lock_state = "Unlocked")
           => (last'.status = "NotStaked" /\ nfts' = nfts)
      /\ ((Fired("stake") \/ Fired("unstake")) /\ ~HasNft(nfts, last'.id))
           => (last'.status = "NotFound" /\ nfts' = nfts) ]_vars

PartialSuccess(rs) ==
  /\ \E i \in DOMAIN rs : WellFormed(rs[i])
  /\ \E i \in DOMAIN rs : ~WellFormed(rs[i])

C11_PerRecipientOutcome ==
  [][ (Fired("airdrop") /\ HasNft(nfts, last'.id) /\ PartialSuccess(last'.recipients)) =>
        \A rs \in RecipientLists :
          (rs # <<>> /\ ~PartialSuccess(rs)
             /\ WellFormedCount(rs) <= Cardinality(FreshIds(nfts))) =>
            airdrop_effect(nfts, last'.id, rs).status # last'.status ]_vars

\* C12: an airdrop from an identifier the registry does not hold answers
\* NotFound and leaves the registry as it was, whatever the recipients.
C12_AirdropNotFound ==
  [][ (Fired("airdrop") /\ ~HasNft(nfts, last'.id)) =>
        (last'.status = "NotFound" /\ nfts' = nfts) ]_vars

\* an airdrop with a well-formed recipient was refused with NotFound while the
\* registry held another record
C12_Witness ==
  /\ last.op = "airdrop" /\ last.status = "NotFound"
  /\ ~HasNft(nfts, last.id) /\ nfts # <<>>
  /\ \E i \in DOMAIN last.recipients : WellFormed(last.recipients[i])

\* C13: an import of bytes that do not decode (the response names no
\* identifier) answers MalformedPacket, leaves the registry as it was and does
\* not poison the mutex, so that no later request aborts at the lock.
C13_MalformedPacketIsValue ==
  [][ /\ (Fired("import") /\ last'.id = NoId) =>
           (last'.status = "MalformedPacket" /\ nfts' = nfts /\ ~poisoned')
      /\ last'.op # "lock" ]_vars

\* C14: a transfer, stake or unstake that answers an error leaves the whole
\* registry as it was.
ErrorKinds == {"NotFound", "AssetLocked", "AlreadyStaked", "NotStaked", "MaturityNotReached"}

C14_NoPartialMutation ==
  [][ ((Fired("transfer") \/ Fired("stake") \/ Fired("unstake"))
         /\ last'.status \in ErrorKinds) => nfts' = nfts ]_vars

\* a stake was refused with AlreadyStaked on a record that is Staked
C14_Witness ==
  /\ last.op = "stake" /\ last.status = "AlreadyStaked"
  /\ last.status \in ErrorKinds
  /\ HasNft(nfts, last.id) /\ nfts[last.id].lock_state = "Staked"

\* C15: from the state a mint for alice leaves, with X the minted record:
\* stake X answers staked, transfer X to bob answers AssetLocked and leaves
\* alice the owner, unstake X answers unstaked, transfer X to bob answers ok,
\* and the view of X then shows owner bob and no description.
C15_Scenario ==
  (last.op = "mint" /\ last.to = "alice") =>
    LET X == last.id
        e1 == stake_effect(nfts, X)
        e2 == transfer_effect(e1.state, X, "bob")
        e3 == unstake_effect(e2.state, X)
        e4 == transfer_effect(e3.state, X, "bob")
        v == view_effect(e4.state, X)
    IN  /\ nfts[X].metadata.shielded
        /\ e1.status = "staked"
        /\ e2.status = "AssetLocked" /\ e2.state[X].owner = "alice"
        /\ e3.status = "unstaked"
        /\ e4.status = "ok"
        /\ v.found /\ v.owner = "bob"
        /\ v.description = Redacted /\ v.description # nfts[X].metadata.description

\* the scenario's first three requests were served: a record minted shielded,
\* owned by alice and Staked, whose transfer to bob was refused
C15_Witness ==
  /\ last.op = "transfer" /\ last.to = "bob" /\ last.status = "AssetLocked"
  /\ HasNft(nfts, last.id) /\ last.id \in DOMAIN minted
  /\ nfts[last.id].owner = "alice" /\ nfts[last.id].lock_state = "Staked"
  /\ nfts[last.id].metadata.shielded

\* C16: every request that waits for the mutex eventually holds it, and
\* every request that holds it eventually returns.
C16_WaitersAcquire ==
  \A t \in Tasks :
    /\ (pc[t] = "waiting") ~> (pc[t] = "locked")
    /\ (pc[t] = "locked") ~> (pc[t] = "idle")

\* C17: a record stays in the registry under its id; its owner changes only
\* in a successful transfer of it, its lock state only in a successful stake or
\* unstake of it; and a transfer changes nothing but the owner of its record.
C17_Frame ==
  [][ /\ \A k \in DOMAIN nfts :
           /\ HasNft(nfts', k) /\ nfts'[k].id = nfts[k].id
           /\ nfts'[k].owner # nfts[k].owner =>
                (Fired("transfer") /\ last'.id = k /\ last'.status = "ok")
           /\ nfts'[k].lock_state # nfts[k].lock_state =>
                ((Fired("stake") \/ Fired("unstake")) /\ last'.id = k
                   /\ last'.status \in {"staked", "unstaked"})
      /\ (Fired("transfer") /\ HasNft(nfts, last'.id)) =>
           nfts' = [nfts EXCEPT ![last'.id].owner = nfts'[last'.id].owner] ]_vars

\* C18: every record of the registry has an identifier of the identifier
\* space, equal to its key, and a non-empty owner.
C18_ValidIdAndOwner ==
  \A k \in DOMAIN nfts :
    nfts[k].id = k /\ k \in Ids /\ nfts[k].owner # ""

\* C19: the record a mint creates is Unlocked and carries the maturity of
\* the mint; a transfer or a stake issued right after the mint succeeds.
C19_MintIsUnlocked ==
  [][ Fired("mint") =>
        /\ nfts'[last'.id].lock_state = "Unlocked"
        /\ nfts'[last'.id].maturity = DefaultMaturity
        /\ \A to \in Principals : transfer_effect(nfts', last'.id, to).status = "ok"
        /\ stake_effect(nfts', last'.id).status = "staked" ]_vars

\* a mint has just created an Unlocked record with the default maturity
C19_Witness ==
  /\ last.op = "mint" /\ HasNft(nfts, last.id)
  /\ nfts[last.id].lock_state = "Unlocked" /\ nfts[last.id].maturity = DefaultMaturity
  /\ nfts[last.id].owner = last.to

\* C20: after a successful transfer the same transfer again answers ok and
\* leaves the registry as it is; a transfer of an Unlocked record to the owner
\* it already has answers ok and changes nothing.
C20_TransferIdempotent ==
  [][ /\ (Fired("transfer") /\ last'.status = "ok") =>
           /\ transfer_effect(nfts', last'.id, last'.to).status = "ok"
           /\ transfer_effect(nfts', last'.id, last'.to).state = nfts'
      /\ (Fired("transfer") /\ HasNft(nfts, last'.id)
            /\ nfts[last'.id].lock_state = "Unlocked"
            /\ nfts[last'.id].owner = last'.to) =>
           (last'.status = "ok" /\ nfts' = nfts) ]_vars

\* a transfer to bob succeeded on a record that is Unlocked and owned by bob
C20_Witness ==
  /\ last.op = "transfer" /\ last.status = "ok" /\ last.to = "bob"
  /\ HasNft(nfts, last.id) /\ nfts[last.id].owner = "bob"
  /\ nfts[last.id].lock_state = "Unlocked"

====
